---- MODULE Spec2Model ----
(***************************************************************************)
(* actix-web-utils: the JSON request-body extractors Json<T> (json.rs) and *)
(* JsonValid<T> (json_valid.rs, json_config.rs), their configuration       *)
(* lookup, the content-type gate, the bounded body reader and the          *)
(* deserialize-and-validate step.                                          *)
(*                                                                         *)
(* A body is a sequence of symbols.  The symbol "1" is the one byte '1';   *)
(* the symbol "ws" is a run of BigRun space bytes, so that bodies of the   *)
(* size of the 2 MiB default limit are representable.                      *)
(***************************************************************************)
EXTENDS Integers, Sequences, FiniteSets, TLC

\* ------------------------------------------------------------------ bounds
SmallLimit == 2
MaxBody == 3
MaxChunk == 2
MaxQueue == 2
MaxPulls == 1
MaxHeadBody == 1
MaxCalls == 2
MaxLateBody == 2

\* ------------------------------------------------------- program constants
DEFAULT_LIMIT == 2097152
KB == 1024
BAD_REQUEST == 400
OK == 200
INTERNAL_SERVER_ERROR == 500

_30KB == 30 * KB

\* ------------------------------------------------------------- byte strings
BigRun == DEFAULT_LIMIT - 2

Symbols == {"1", "ws"}

SymLen(s) == IF s = "ws" THEN BigRun ELSE 1

RECURSIVE ByteLen(_)
ByteLen(bytes) ==
    IF bytes = <<>> THEN 0 ELSE SymLen(Head(bytes)) + ByteLen(Tail(bytes))

SeqsUpTo(S, n) == UNION {[1..k -> S] : k \in 0..n}

Chunks == SeqsUpTo(Symbols, MaxChunk)

\* ------------------------------------------------------------------ Option
None == [some |-> FALSE, v |-> 0]
Some(x) == [some |-> TRUE, v |-> x]

\* ------------------------------------------------------------- JsonConfig
\* content_type: "None", or the name of the predicate the application gave.
DEFAULT_CONFIG ==
    [limit |-> DEFAULT_LIMIT, content_type |-> "None", content_type_required |-> TRUE]

NoConfig == [limit |-> 0, content_type |-> "Unregistered", content_type_required |-> FALSE]

JsonConfig_limit(self, limit) == [self EXCEPT !.limit = limit]

JsonConfig_content_type(self, predicate) == [self EXCEPT !.content_type = predicate]

JsonConfig_content_type_required(self, content_type_required) ==
    [self EXCEPT !.content_type_required = content_type_required]

\* The keys of the application data map are types.  An application can name only
\* the JsonConfig the crate exports (json_config::JsonConfig, lib.rs:56); the
\* JsonConfig of module json is not exported.
ExportedKeys == {"json_config::JsonConfig", "Data<json_config::JsonConfig>"}
PrivateKeys == {"json::JsonConfig", "Data<json::JsonConfig>"}
TypeKeys == ExportedKeys \cup PrivateKeys

app_data_get(data, key) == data[key]

\* json_config::JsonConfig::from_req, used by JsonValid<T>
json_config_from_req(data) ==
    IF app_data_get(data, "json_config::JsonConfig") # NoConfig
    THEN app_data_get(data, "json_config::JsonConfig")
    ELSE IF app_data_get(data, "Data<json_config::JsonConfig>") # NoConfig
    THEN app_data_get(data, "Data<json_config::JsonConfig>")
    ELSE DEFAULT_CONFIG

\* json::JsonConfig::from_req, used by Json<T>
json_from_req(data) ==
    IF app_data_get(data, "json::JsonConfig") # NoConfig
    THEN app_data_get(data, "json::JsonConfig")
    ELSE IF app_data_get(data, "Data<json::JsonConfig>") # NoConfig
    THEN app_data_get(data, "Data<json::JsonConfig>")
    ELSE DEFAULT_CONFIG

from_req(ex, data) ==
    IF ex = "Json" THEN json_from_req(data) ELSE json_config_from_req(data)

\* ------------------------------------------------------------ request head
ContentTypes ==
    {"absent", "application/json", "application/vnd.api+json", "text/plain",
     "application/vnd.custom", "not a mime"}

NoMime == [type |-> "", subtype |-> "", suffix |-> ""]

\* HttpMessage::mime_type: Ok(None) without header, Err for a header that does
\* not parse, Ok(Some(mime)) otherwise.
mime_type(ctype) ==
    CASE ctype = "absent" -> [ok |-> TRUE, some |-> FALSE, mime |-> NoMime]
      [] ctype = "not a mime" -> [ok |-> FALSE, some |-> FALSE, mime |-> NoMime]
      [] ctype = "application/json" ->
            [ok |-> TRUE, some |-> TRUE,
             mime |-> [type |-> "application", subtype |-> "json", suffix |-> ""]]
      [] ctype = "application/vnd.api+json" ->
            [ok |-> TRUE, some |-> TRUE,
             mime |-> [type |-> "application", subtype |-> "vnd.api", suffix |-> "json"]]
      [] ctype = "text/plain" ->
            [ok |-> TRUE, some |-> TRUE,
             mime |-> [type |-> "text", subtype |-> "plain", suffix |-> ""]]
      [] ctype = "application/vnd.custom" ->
            [ok |-> TRUE, some |-> TRUE,
             mime |-> [type |-> "application", subtype |-> "vnd.custom", suffix |-> ""]]

\* The predicates an application registers with JsonConfig::content_type.
Predicates == {"custom_only"}

predicate(name, mime) ==
    CASE name = "custom_only" -> mime.type = "application" /\ mime.subtype = "vnd.custom"
      [] OTHER -> FALSE

\* Content-Length header values: none, digits, or text that is no usize.
ContentLengths ==
    {[kind |-> "absent", n |-> 0], [kind |-> "garbage", n |-> 0]}
    \cup {[kind |-> "digits", n |-> n] :
            n \in {SmallLimit, SmallLimit + 1, DEFAULT_LIMIT, DEFAULT_LIMIT + 1}}

\* .get(&CONTENT_LENGTH).and_then(to_str).and_then(parse::<usize>)
parse_length(clen) == IF clen.kind = "digits" THEN Some(clen.n) ELSE None

\* ------------------------------------------------------------------ errors
NoErrors == {}

Error(type, length, limit, errors) ==
    [type |-> type, length |-> length, limit |-> limit, errors |-> errors]

ContentType == Error("ContentType", 0, 0, NoErrors)
OverflowKnownLength(length, limit) == Error("OverflowKnownLength", length, limit, NoErrors)
Overflow(limit) == Error("Overflow", 0, limit, NoErrors)
Deserialize == Error("Deserialize", 0, 0, NoErrors)
\* the errors a payload stream can yield (actix_web::error::PayloadError)
PayloadErrors == {"PayloadError::Incomplete", "PayloadError::Io"}
\* faulty variant: every stream error is reported as Incomplete
PayloadErrorAsIncomplete(e) == Error("PayloadError::Incomplete", 0, 0, NoErrors)
\* `chunk?`: From<PayloadError> for actix_web::Error keeps the error it is given
PayloadError(e) == Error(e, 0, 0, NoErrors)
\* validation.rs: BadRequest(ValidationErrors)
BadRequest(errors) == Error("BadRequest", 0, 0, errors)
\* the Option<JsonPayloadError> of the Error variant once taken
Taken == Error("None", 0, 0, NoErrors)

status_code(e) == CASE e.type = "BadRequest" -> BAD_REQUEST

\* ------------------------------------------------- the reader (both flavours)
\* JsonExtractFut (json.rs) and JsonExtractInternalFut (json_config.rs) are the
\* same enum: Error(Option<JsonPayloadError>) | Body{limit, length, payload, buf}.
NotCreated ==
    [variant |-> "NotCreated", err |-> Taken, limit |-> 0, length |-> None, buf |-> <<>>]

FutError(e) ==
    [variant |-> "Error", err |-> e, limit |-> 0, length |-> None, buf |-> <<>>]

FutBody(limit, length, buf) ==
    [variant |-> "Body", err |-> Taken, limit |-> limit, length |-> length, buf |-> buf]

\* faulty variant: a request without a parseable content type is always refused
CanParseJsonNoElse(ctype, ctype_fn, ctype_required) ==
    LET m == mime_type(ctype) IN
    IF m.ok /\ m.some
    THEN \/ m.mime.subtype = "json"
         \/ m.mime.suffix = "json"
         \/ (ctype_fn # "None" /\ predicate(ctype_fn, m.mime))
    ELSE FALSE

\* faulty variant: the suffix is not looked at
CanParseJsonNoSuffix(ctype, ctype_fn, ctype_required) ==
    LET m == mime_type(ctype) IN
    IF m.ok /\ m.some
    THEN \/ m.mime.subtype = "json"
         \/ (ctype_fn # "None" /\ predicate(ctype_fn, m.mime))
    ELSE ~ctype_required

\* faulty variant: the predicate is not consulted
CanParseJsonNoPredicate(ctype, ctype_fn, ctype_required) ==
    LET m == mime_type(ctype) IN
    IF m.ok /\ m.some
    THEN \/ m.mime.subtype = "json"
         \/ m.mime.suffix = "json"
    ELSE ~ctype_required

\* the content-type check of new()
can_parse_json(ctype, ctype_fn, ctype_required) ==
    LET m == mime_type(ctype) IN
    IF m.ok /\ m.some
    THEN \/ m.mime.subtype = "json"
         \/ m.mime.suffix = "json"
         \/ (ctype_fn # "None" /\ predicate(ctype_fn, m.mime))
    ELSE ~ctype_required

\* faulty variant: the content type of a request that declares a length is not
\* checked
NewLengthFirst(r, ctype_fn, ctype_required) ==
    IF ~parse_length(r.clen).some /\ ~can_parse_json(r.ctype, ctype_fn, ctype_required)
    THEN [fut |-> FutError(ContentType), taken |-> FALSE]
    ELSE [fut |-> FutBody(DEFAULT_LIMIT, parse_length(r.clen), <<>>), taken |-> TRUE]

\* faulty variant: the payload is taken before the content-type check
NewTakesFirst(r, ctype_fn, ctype_required) ==
    IF ~can_parse_json(r.ctype, ctype_fn, ctype_required)
    THEN [fut |-> FutError(ContentType), taken |-> TRUE]
    ELSE [fut |-> FutBody(DEFAULT_LIMIT, parse_length(r.clen), <<>>), taken |-> TRUE]

\* new(): the future and whether payload.take() ran
New(r, ctype_fn, ctype_required) ==
    IF ~can_parse_json(r.ctype, ctype_fn, ctype_required)
    THEN [fut |-> FutError(ContentType), taken |-> FALSE]
    ELSE [fut |-> FutBody(DEFAULT_LIMIT, parse_length(r.clen), <<>>), taken |-> TRUE]

\* faulty variant: the provisional limit of new() stays in the reader
LimitKeepsProvisional(f, limit) ==
    IF f.variant = "Body"
    THEN IF f.length.some /\ f.length.v > limit
         THEN FutError(OverflowKnownLength(f.length.v, limit))
         ELSE f
    ELSE f

\* faulty variant: a declared length equal to the limit is refused
LimitInclusive(f, limit) ==
    IF f.variant = "Body"
    THEN IF f.length.some /\ f.length.v >= limit
         THEN FutError(OverflowKnownLength(f.length.v, limit))
         ELSE FutBody(limit, f.length, f.buf)
    ELSE f

\* faulty variant: a declared length that passes the check becomes the limit
LimitDeclaredCaps(f, limit) ==
    IF f.variant = "Body"
    THEN IF f.length.some /\ f.length.v > limit
         THEN FutError(OverflowKnownLength(f.length.v, limit))
         ELSE FutBody(IF f.length.some THEN f.length.v ELSE limit, f.length, f.buf)
    ELSE f

\* limit(): the declared-length check, then the limit replaces the provisional one
Limit(f, limit) ==
    IF f.variant = "Body"
    THEN IF f.length.some /\ f.length.v > limit
         THEN FutError(OverflowKnownLength(f.length.v, limit))
         ELSE FutBody(limit, f.length, f.buf)
    ELSE f

\* --------------------------------------------------------------- logging
Min(a, b) == IF a < b THEN a ELSE b

\* faulty variant: the preview is not cut
TextReprWhole(bytes) == [of |-> bytes, shown |-> ByteLen(bytes)]

\* text_repr: the leading min(len, 30 KB) bytes
text_repr(bytes) == [of |-> bytes, shown |-> Min(ByteLen(bytes), _30KB)]

trace_error(bytes) == [level |-> "error", text |-> text_repr(bytes)]

trace_ok(bytes) == [level |-> "trace", text |-> text_repr(bytes)]

\* ------------------------------------------- deserialization and validation
\* serde_json::from_slice::<T> for a T that is an unsigned number: optional
\* white space, one or more digits, optional white space.
RECURSIVE Decimal(_)
Decimal(digits) ==
    IF digits = <<>> THEN 0
    ELSE 10 * Decimal(SubSeq(digits, 1, Len(digits) - 1)) + 1

from_slice(bytes) ==
    LET idx == {i \in 1..Len(bytes) : bytes[i] # "ws"} IN
    IF idx = {} THEN [ok |-> FALSE, v |-> 0]
    ELSE LET lo == CHOOSE i \in idx : \A j \in idx : i <= j
             hi == CHOOSE i \in idx : \A j \in idx : j <= i
             core == SubSeq(bytes, lo, hi)
         IN IF \E i \in lo..hi : bytes[i] = "ws"
            THEN [ok |-> FALSE, v |-> 0]
            ELSE [ok |-> TRUE, v |-> Decimal(core)]

\* Validate::validate for a T declaring two range rules; the result lists every
\* violated rule.
validate(v) ==
    {r \in {"range_max_10"} : v > 10} \cup {r \in {"range_max_100"} : v > 100}

Ok == [ok |-> TRUE, err |-> Taken]
Err(e) == [ok |-> FALSE, err |-> e]

\* impl Valid<T> for NotValidated
NotValidated_valid(value) == Ok

\* faulty variant: only one violation is reported
ValidatedFirstOnly(value) ==
    LET errors == validate(value) IN
    IF errors = {} THEN Ok
    ELSE Err(BadRequest({CHOOSE r \in errors : TRUE}))

\* impl Valid<T> for Validated: value.validate().map_err(map_errors)
Validated_valid(value) ==
    LET errors == validate(value) IN
    IF errors = {} THEN Ok ELSE Err(BadRequest(errors))

valid(V, value) ==
    IF V = "Validated" THEN Validated_valid(value) ELSE NotValidated_valid(value)

\* Json<T, V = NotValidated> for Json, JsonExtractInternalFut<T, Validated> for JsonValid
StrategyOf(ex) == IF ex = "Json" THEN "NotValidated" ELSE "Validated"

\* -------------------------------------------------------------- poll_bytes
\* The payload is the queue of items the host has delivered and the reader has
\* not pulled: poll_next answers Pending on an empty queue.
Chunk(bytes) == [kind |-> "Chunk", bytes |-> bytes, err |-> ""]
StreamErr(e) == [kind |-> "Err", bytes |-> <<>>, err |-> e]
StreamEnd == [kind |-> "None", bytes |-> <<>>, err |-> ""]

BytesPending == [kind |-> "Pending", bytes |-> <<>>, err |-> Taken]
BytesOk(bytes) == [kind |-> "Ok", bytes |-> bytes, err |-> Taken]
BytesErr(e) == [kind |-> "Err", bytes |-> <<>>, err |-> e]
\* the poll did not return: Option::unwrap on None panicked
BytesPanic == [kind |-> "Panic", bytes |-> <<>>, err |-> Taken]

\* faulty variant: a body of exactly the limit overflows
OverflowsInclusive(buf, chunk, limit) == ByteLen(buf) + ByteLen(chunk) >= limit

\* faulty variant: the bytes already buffered are not counted
OverflowsChunkOnly(buf, chunk, limit) == ByteLen(chunk) > limit

\* buf.len() + chunk.len() > *limit
Overflows(buf, chunk, limit) == ByteLen(buf) + ByteLen(chunk) > limit

\* faulty variant: the chunk is put in front of the buffer
ExtendFront(buf, chunk) == chunk \o buf

\* buf.extend_from_slice(&chunk)
extend_from_slice(buf, chunk) == buf \o chunk

\* The result: the future, what is left of the payload, Poll<Result<BytesMut>>,
\* what trace_error logged, the number of poll_next calls and the chunks they gave.
Step(f, payload, res, log, n, yielded) ==
    [fut |-> f, payload |-> payload, res |-> res, log |-> log, n |-> n,
     yielded |-> yielded]

\* faulty variant: the loop is left after one chunk although more is ready
BodyLoopOneChunk(f, payload, n, yielded) ==
    IF payload = <<>>
    THEN Step(f, payload, BytesPending, <<>>, n + 1, yielded)
    ELSE LET item == Head(payload)
             rest == Tail(payload)
         IN CASE item.kind = "Err" ->
                    Step(f, rest, BytesErr(PayloadError(item.err)), <<>>, n + 1, yielded)
              [] item.kind = "None" ->
                    Step([f EXCEPT !.buf = <<>>], rest, BytesOk(f.buf), <<>>, n + 1, yielded)
              [] item.kind = "Chunk" ->
                    IF Overflows(f.buf, item.bytes, f.limit)
                    THEN Step(f, rest, BytesErr(Overflow(f.limit)), <<trace_error(f.buf)>>,
                              n + 1, Append(yielded, item.bytes))
                    ELSE Step([f EXCEPT !.buf = extend_from_slice(@, item.bytes)], rest,
                              BytesPending, <<>>, n + 1, Append(yielded, item.bytes))

RECURSIVE body_loop(_, _, _, _)
body_loop(f, payload, n, yielded) ==
    IF payload = <<>>
    THEN Step(f, payload, BytesPending, <<>>, n + 1, yielded)
    ELSE LET item == Head(payload)
             rest == Tail(payload)
         IN CASE item.kind = "Err" ->
                    Step(f, rest, BytesErr(PayloadError(item.err)), <<>>, n + 1, yielded)
              [] item.kind = "None" ->
                    Step([f EXCEPT !.buf = <<>>], rest, BytesOk(f.buf), <<>>, n + 1, yielded)
              [] item.kind = "Chunk" ->
                    IF Overflows(f.buf, item.bytes, f.limit)
                    THEN Step(f, rest, BytesErr(Overflow(f.limit)), <<trace_error(f.buf)>>,
                              n + 1, Append(yielded, item.bytes))
                    ELSE body_loop([f EXCEPT !.buf = extend_from_slice(@, item.bytes)],
                                   rest, n + 1, Append(yielded, item.bytes))

\* faulty variant: the Error variant keeps its error and answers Pending
PollBytesErrorPends(f, payload) ==
    IF f.variant = "Body"
    THEN body_loop(f, payload, 0, <<>>)
    ELSE Step(f, payload, BytesPending, <<>>, 0, <<>>)

\* Self::Error(e) => e.take().unwrap(): the error is moved out on the first poll
\* and the unwrap of a later poll finds None.
poll_bytes(f, payload) ==
    CASE f.variant = "Body" -> body_loop(f, payload, 0, <<>>)
      [] f.variant = "Error" /\ f.err # Taken ->
            Step([f EXCEPT !.err = Taken], payload, BytesErr(f.err), <<>>, 0, <<>>)
      [] OTHER -> Step(f, payload, BytesPanic, <<>>, 0, <<>>)

\* ---------------------------------------------------------------- poll
NoValue == [carrier |-> "", inner |-> 0]
Carrier(ex, v) == [carrier |-> ex, inner |-> v]

NotPolled == [poll |-> "NotPolled", ok |-> FALSE, value |-> NoValue, err |-> Taken]
PollPending == [poll |-> "Pending", ok |-> FALSE, value |-> NoValue, err |-> Taken]
ReadyOk(value) == [poll |-> "Ready", ok |-> TRUE, value |-> value, err |-> Taken]
ReadyErr(e) == [poll |-> "Ready", ok |-> FALSE, value |-> NoValue, err |-> e]
Panicked == [poll |-> "Panic", ok |-> FALSE, value |-> NoValue, err |-> Taken]

NotHanded == [some |-> FALSE, bytes |-> <<>>]
Handed(bytes) == [some |-> TRUE, bytes |-> bytes]

\* Future::poll of the reader, with JsonValidExtractFut::poll's map for JsonValid:
\* the poll_bytes step, the output, the bytes given to from_slice, the values
\* given to V::valid.
poll(ex, f, payload) ==
    LET b == poll_bytes(f, payload)
        d == from_slice(b.res.bytes)
        checked == valid(StrategyOf(ex), d.v)
    IN CASE b.res.kind = "Pending" ->
                [step |-> b, out |-> PollPending, handed |-> NotHanded, validated |-> <<>>]
         [] b.res.kind = "Panic" ->
                [step |-> b, out |-> Panicked, handed |-> NotHanded, validated |-> <<>>]
         [] b.res.kind = "Err" ->
                [step |-> b, out |-> ReadyErr(b.res.err), handed |-> NotHanded,
                 validated |-> <<>>]
         [] b.res.kind = "Ok" ->
                IF d.ok
                THEN [step |-> [b EXCEPT !.log = Append(@, trace_ok(b.res.bytes))],
                      out |-> IF checked.ok THEN ReadyOk(Carrier(ex, d.v))
                              ELSE ReadyErr(checked.err),
                      handed |-> Handed(b.res.bytes), validated |-> <<d.v>>]
                ELSE [step |-> [b EXCEPT !.log = Append(@, trace_error(b.res.bytes))],
                      out |-> ReadyErr(Deserialize),
                      handed |-> Handed(b.res.bytes), validated |-> <<>>]

\* ------------------------------------- JsonExtractInternalFut (json_config.rs)
\* The reader of json_config.rs on its own, as that file writes it; the actions
\* above run both extractors on the operators of json.rs.
InternalNew(r, ctype_fn, ctype_required) ==
    LET m == mime_type(r.ctype)
        can_parse ==
            IF m.ok /\ m.some
            THEN \/ m.mime.subtype = "json"
                 \/ m.mime.suffix = "json"
                 \/ (ctype_fn # "None" /\ predicate(ctype_fn, m.mime))
            ELSE ~ctype_required
    IN IF ~can_parse
       THEN [fut |-> FutError(ContentType), taken |-> FALSE]
       ELSE [fut |-> FutBody(DEFAULT_LIMIT, parse_length(r.clen), <<>>), taken |-> TRUE]

\* faulty variant: the declared length is not checked
InternalLimitUnchecked(f, limit) ==
    IF f.variant = "Body" THEN FutBody(limit, f.length, f.buf) ELSE f

InternalLimit(f, limit) ==
    IF f.variant = "Body"
    THEN IF f.length.some /\ f.length.v > limit
         THEN FutError(OverflowKnownLength(f.length.v, limit))
         ELSE FutBody(limit, f.length, f.buf)
    ELSE f

RECURSIVE internal_body_loop(_, _, _, _)
internal_body_loop(f, payload, n, yielded) ==
    IF payload = <<>>
    THEN Step(f, payload, BytesPending, <<>>, n + 1, yielded)
    ELSE LET item == Head(payload)
             rest == Tail(payload)
         IN CASE item.kind = "Chunk" ->
                    IF ByteLen(f.buf) + ByteLen(item.bytes) > f.limit
                    THEN Step(f, rest, BytesErr(Overflow(f.limit)), <<trace_error(f.buf)>>,
                              n + 1, Append(yielded, item.bytes))
                    ELSE internal_body_loop([f EXCEPT !.buf = @ \o item.bytes], rest,
                                            n + 1, Append(yielded, item.bytes))
              [] item.kind = "Err" ->
                    Step(f, rest, BytesErr(Error(item.err, 0, 0, NoErrors)), <<>>, n + 1,
                         yielded)
              [] item.kind = "None" ->
                    Step([f EXCEPT !.buf = <<>>], rest, BytesOk(f.buf), <<>>, n + 1, yielded)

internal_poll_bytes(f, payload) ==
    CASE f.variant = "Body" -> internal_body_loop(f, payload, 0, <<>>)
      [] f.variant = "Error" /\ f.err # Taken ->
            Step([f EXCEPT !.err = Taken], payload, BytesErr(f.err), <<>>, 0, <<>>)
      [] OTHER -> Step(f, payload, BytesPanic, <<>>, 0, <<>>)

\* Future::poll of JsonExtractInternalFut<T, V>: the value is returned bare
internal_poll(V, f, payload) ==
    LET b == internal_poll_bytes(f, payload)
        d == from_slice(b.res.bytes)
        checked == valid(V, d.v)
    IN CASE b.res.kind = "Pending" -> [step |-> b, out |-> PollPending]
         [] b.res.kind = "Panic" -> [step |-> b, out |-> Panicked]
         [] b.res.kind = "Err" -> [step |-> b, out |-> ReadyErr(b.res.err)]
         [] b.res.kind = "Ok" ->
                IF d.ok
                THEN [step |-> [b EXCEPT !.log = Append(@, trace_ok(b.res.bytes))],
                      out |-> IF checked.ok THEN ReadyOk(Carrier("T", d.v))
                              ELSE ReadyErr(checked.err)]
                ELSE [step |-> [b EXCEPT !.log = Append(@, trace_error(b.res.bytes))],
                      out |-> ReadyErr(Deserialize)]

\* ---------------------------------------------------------------- respond_to
\* JsonPayloadError::Serialize and the error of HttpResponseBuilder::message_body
Serialize == Error("Serialize", 0, 0, NoErrors)
HttpError == Error("http::Error", 0, 0, NoErrors)

APPLICATION_JSON == "application/json"

\* the decimal text of a value of T
RECURSIVE Digits(_)
Digits(v) == IF v = 0 THEN <<>> ELSE Append(Digits(v \div 10), "1")

\* serde_json::to_string(&self.0); T's Serialize impl decides whether it succeeds
to_string(v, serializes) ==
    IF serializes THEN [ok |-> TRUE, text |-> Digits(v)] ELSE [ok |-> FALSE, text |-> <<>>]

Left(text) == [side |-> "left", text |-> text, of |-> Taken]
Right(e) == [side |-> "right", text |-> <<>>, of |-> e]

HttpResponse(status, content_type, body) ==
    [kind |-> "Response", status |-> status, content_type |-> content_type, body |-> body]

\* the call unwound instead of returning a response
ResponsePanic ==
    [kind |-> "Panic", status |-> 0, content_type |-> "", body |-> Right(Taken)]

\* HttpResponse::from_error(err).map_into_right_body(): the status of the error
\* (ResponseError::status_code, INTERNAL_SERVER_ERROR unless overridden) and a
\* body rendered from the error
from_error(e) ==
    HttpResponse(IF e.type = "BadRequest" THEN status_code(e) ELSE INTERNAL_SERVER_ERROR,
                 "text/plain; charset=utf-8", Right(e))

\* HttpResponse::Ok().content_type(mime::APPLICATION_JSON).message_body(body)
message_body(body, builds) ==
    IF builds THEN [ok |-> TRUE, res |-> HttpResponse(OK, APPLICATION_JSON, Left(body))]
    ELSE [ok |-> FALSE, res |-> from_error(HttpError)]

\* faulty variant: the serialization result is unwrapped
RespondToUnwrap(value, serializes, builds) ==
    LET body == to_string(value, serializes)
        built == message_body(body.text, builds)
    IN IF body.ok THEN built.res ELSE ResponsePanic

\* impl Responder for Json<T, V>: respond_to
respond_to(value, serializes, builds) ==
    LET body == to_string(value, serializes)
        built == message_body(body.text, builds)
    IN IF body.ok
       THEN (IF built.ok THEN built.res ELSE from_error(HttpError))
       ELSE from_error(Serialize)

NoResponse ==
    [given |-> FALSE, value |-> 0, serializes |-> FALSE, builds |-> FALSE,
     res |-> ResponsePanic]

\* ------------------------------------------------------------------- state
VARIABLES
    pc,             \* "startup", "serving", "polling" (a future exists), "done"
    builder,        \* the JsonConfig the application is building
    calls,          \* number of builder calls the application has made
    app_data,       \* the application data: type key -> registered config
    extractor,      \* the extractor of the handler the request reached
    req,            \* the request head: content-type and content-length headers
    payload_taken,  \* whether payload.take() took the stream out of the request
    payload,        \* the stream: items delivered by the host and not yet pulled
    config,         \* the config from_request resolved
    fut,            \* the reader: JsonExtractFut / JsonExtractInternalFut
    out,            \* what the last poll of the future returned
    pulls,          \* number of poll_next calls on the stream
    chunks,         \* the chunks poll_next yielded, in order
    handed,         \* the bytes given to serde_json::from_slice
    validated,      \* the values given to V::valid
    log,            \* the records written by trace_error / trace_ok
    response,       \* what respond_to was given and what it returned
    other           \* a second decode attempt, parked while this one runs

vars ==
    <<pc, builder, calls, app_data, extractor, req, payload_taken, payload, config,
      fut, out, pulls, chunks, handed, validated, log, response, other>>

startup_vars == <<builder, calls, app_data>>
request_vars == <<extractor, req, payload_taken, config>>
reader_vars == <<fut, out, pulls, chunks, handed, validated, log, response>>

Extractors == {"Json", "JsonValid"}
Limits == {SmallLimit, DEFAULT_LIMIT}
NoRequest == [ctype |-> "absent", clen |-> [kind |-> "absent", n |-> 0]]

NothingRegistered == [k \in TypeKeys |-> NoConfig]

NoRequestYet ==
    /\ extractor = "Json"
    /\ req = NoRequest
    /\ payload_taken = FALSE
    /\ payload = <<>>
    /\ config = NoConfig
    /\ fut = NotCreated
    /\ out = NotPolled
    /\ pulls = 0
    /\ chunks = <<>>
    /\ handed = NotHanded
    /\ validated = <<>>
    /\ log = <<>>
    /\ response = NoResponse

\* The state of one decode attempt is its task, request, stream and reader.
\* no second request was accepted
NoAttempt ==
    [pc |-> "none", extractor |-> "Json", req |-> NoRequest, payload_taken |-> FALSE,
     payload |-> <<>>, config |-> NoConfig, fut |-> NotCreated, out |-> NotPolled,
     pulls |-> 0, chunks |-> <<>>, handed |-> NotHanded, validated |-> <<>>,
     log |-> <<>>, response |-> NoResponse]

\* a second connection whose request has not arrived yet
FreshAttempt == [NoAttempt EXCEPT !.pc = "serving"]

\* The application starts: nothing is registered.
Init ==
    /\ other = NoAttempt
    /\ pc = "startup"
    /\ builder = DEFAULT_CONFIG
    /\ calls = 0
    /\ app_data = NothingRegistered
    /\ NoRequestYet

\* A running server whose application registered nothing, or a config with a
\* small limit.
StreamAppData ==
    {NothingRegistered,
     [NothingRegistered EXCEPT
        !["json_config::JsonConfig"] = JsonConfig_limit(DEFAULT_CONFIG, SmallLimit)]}

InitStream ==
    /\ other = NoAttempt
    /\ pc = "serving"
    /\ builder = DEFAULT_CONFIG
    /\ calls = 0
    /\ app_data \in StreamAppData
    /\ NoRequestYet

\* ----------------------------------------------------------------- startup
\* JsonConfig::limit
ConfigLimit(limit) ==
    /\ pc = "startup"
    /\ calls < MaxCalls
    /\ builder' = JsonConfig_limit(builder, limit)
    /\ calls' = calls + 1
    /\ UNCHANGED <<other, pc, app_data, payload, request_vars, reader_vars>>

\* JsonConfig::content_type
ConfigContentType(p) ==
    /\ pc = "startup"
    /\ calls < MaxCalls
    /\ builder' = JsonConfig_content_type(builder, p)
    /\ calls' = calls + 1
    /\ UNCHANGED <<other, pc, app_data, payload, request_vars, reader_vars>>

\* JsonConfig::content_type_required
ConfigContentTypeRequired(b) ==
    /\ pc = "startup"
    /\ calls < MaxCalls
    /\ builder' = JsonConfig_content_type_required(builder, b)
    /\ calls' = calls + 1
    /\ UNCHANGED <<other, pc, app_data, payload, request_vars, reader_vars>>

\* The application registers the config it built, as itself or wrapped in Data.
AppData(key) ==
    /\ pc = "startup"
    /\ app_data' = [app_data EXCEPT ![key] = builder]
    /\ builder' = DEFAULT_CONFIG
    /\ UNCHANGED <<other, pc, calls, payload, request_vars, reader_vars>>

\* The server starts: the application data is published.
Run ==
    /\ pc = "startup"
    /\ pc' = "serving"
    /\ builder' = DEFAULT_CONFIG
    /\ calls' = 0
    /\ UNCHANGED <<other, app_data, payload, request_vars, reader_vars>>

\* ------------------------------------------------------------ from_request
\* Json::from_request (json.rs) and JsonValid::from_request with
\* JsonExtractInternalFut::from_req_and_payload (json_valid.rs, json_config.rs)
FromRequest(ex, ctype, clen) ==
    /\ pc = "serving"
    /\ LET r == [ctype |-> ctype, clen |-> clen]
           c == from_req(ex, app_data)
           made == New(r, c.content_type, c.content_type_required)
       IN /\ req' = r
          /\ config' = c
          /\ payload_taken' = made.taken
          /\ fut' = Limit(made.fut, c.limit)
    /\ extractor' = ex
    /\ pc' = "polling"
    /\ UNCHANGED <<other, startup_vars, payload, out, pulls, chunks, handed, validated, log,
                   response>>

\* ---------------------------------------------------------------- the host
RECURSIVE Symbols_in(_)
Symbols_in(seq) == IF seq = <<>> THEN 0 ELSE Len(Head(seq)) + Symbols_in(Tail(seq))

QueuedChunks == [i \in 1..Len(payload) |-> payload[i].bytes]

StreamOpen == IF payload = <<>> THEN TRUE ELSE payload[Len(payload)].kind = "Chunk"

\* The host delivers a chunk of the body; a body has at most `most` symbols and
\* at most `most` chunks.
DeliverChunk(c, most) ==
    /\ pc = "polling"
    /\ StreamOpen
    /\ Len(payload) < MaxQueue
    /\ Len(chunks) + Len(payload) < most
    /\ Symbols_in(chunks) + Symbols_in(QueuedChunks) + Len(c) <= most
    /\ payload' = Append(payload, Chunk(c))
    /\ UNCHANGED <<other, pc, startup_vars, request_vars, reader_vars>>

DeliverEnd ==
    /\ pc = "polling"
    /\ StreamOpen
    /\ Len(payload) < MaxQueue
    /\ payload' = Append(payload, StreamEnd)
    /\ UNCHANGED <<other, pc, startup_vars, request_vars, reader_vars>>

DeliverError(e) ==
    /\ pc = "polling"
    /\ StreamOpen
    /\ Len(payload) < MaxQueue
    /\ payload' = Append(payload, StreamErr(e))
    /\ UNCHANGED <<other, pc, startup_vars, request_vars, reader_vars>>

\* -------------------------------------------------------------------- poll
\* A poll that finds the stream empty and was not woken is allowed only while
\* fewer than MaxPulls pulls were made.
MayPoll == fut.variant = "Error" \/ payload # <<>> \/ pulls < MaxPulls

\* The executor polls the future; it does not poll a future that returned Ready.
Poll ==
    /\ pc = "polling"
    /\ MayPoll
    /\ LET r == poll(extractor, fut, payload)
       IN /\ fut' = r.step.fut
          /\ payload' = r.step.payload
          /\ pulls' = pulls + r.step.n
          /\ chunks' = chunks \o r.step.yielded
          /\ log' = log \o r.step.log
          /\ out' = r.out
          /\ handed' = IF r.handed.some THEN r.handed ELSE handed
          /\ validated' = validated \o r.validated
          /\ pc' = IF r.out.poll = "Ready" THEN "done" ELSE "polling"
    /\ UNCHANGED <<other, startup_vars, request_vars, response>>

\* The handler returns the Json it extracted as its response.
RespondTo(serializes, builds) ==
    /\ pc = "done"
    /\ out.ok
    /\ out.value.carrier = "Json"
    /\ ~response.given
    /\ response' = [given |-> TRUE, value |-> out.value.inner, serializes |-> serializes,
                    builds |-> builds,
                    res |-> respond_to(out.value.inner, serializes, builds)]
    /\ UNCHANGED <<other, pc, startup_vars, request_vars, payload, fut, out, pulls, chunks,
                   handed, validated, log>>

Request ==
    \E ex \in Extractors, ctype \in ContentTypes, clen \in ContentLengths :
        FromRequest(ex, ctype, clen)

\* The application is configured, then one request with a short body is served.
Next ==
    \/ \E l \in Limits : ConfigLimit(l)
    \/ \E p \in Predicates : ConfigContentType(p)
    \/ \E b \in BOOLEAN : ConfigContentTypeRequired(b)
    \/ \E k \in ExportedKeys : AppData(k)
    \/ Run
    \/ Request
    \/ \E c \in Chunks : DeliverChunk(c, MaxHeadBody)
    \/ DeliverEnd
    \/ DeliverError("PayloadError::Incomplete")
    \/ Poll

Spec == Init /\ [][Next]_vars

\* the header values of the requests whose streams are followed in full
StreamTypes == {"absent", "application/json", "text/plain"}
StreamLengths ==
    {[kind |-> "absent", n |-> 0]}
    \cup {[kind |-> "digits", n |-> n] : n \in {SmallLimit, SmallLimit + 1}}

StreamRequest ==
    \E ex \in Extractors, ctype \in StreamTypes, clen \in StreamLengths :
        FromRequest(ex, ctype, clen)

\* A running server serves one request with a body of up to MaxBody symbols.
NextStream ==
    \/ StreamRequest
    \/ \E serializes, builds \in BOOLEAN : RespondTo(serializes, builds)
    \/ \E c \in Chunks : DeliverChunk(c, MaxBody)
    \/ DeliverEnd
    \/ \E e \in PayloadErrors : DeliverError(e)
    \/ Poll

SpecStream == InitStream /\ [][NextStream]_vars

\* ------------------------------------------------------ concurrent attempts
\* the attempt the worker is running
Current ==
    [pc |-> pc, extractor |-> extractor, req |-> req, payload_taken |-> payload_taken,
     payload |-> payload, config |-> config, fut |-> fut, out |-> out, pulls |-> pulls,
     chunks |-> chunks, handed |-> handed, validated |-> validated, log |-> log,
     response |-> response]

\* faulty variant: the buffer is one object shared by the futures
ResumeSharedBuf(parked, running) == [parked EXCEPT !.fut.buf = running.fut.buf]

\* A task is resumed with the future it owns: JsonExtractFut holds its buf, limit,
\* length and payload itself.
Resume(parked, running) == parked

\* The worker turns from the task of one request to the task of the other.
Switch ==
    /\ other.pc # "none"
    /\ LET a == Resume(other, Current)
       IN /\ pc' = a.pc
          /\ extractor' = a.extractor
          /\ req' = a.req
          /\ payload_taken' = a.payload_taken
          /\ payload' = a.payload
          /\ config' = a.config
          /\ fut' = a.fut
          /\ out' = a.out
          /\ pulls' = a.pulls
          /\ chunks' = a.chunks
          /\ handed' = a.handed
          /\ validated' = a.validated
          /\ log' = a.log
          /\ response' = a.response
    /\ other' = Current
    /\ UNCHANGED startup_vars

InitConcurrent ==
    /\ other = FreshAttempt
    /\ pc = "serving"
    /\ builder = DEFAULT_CONFIG
    /\ calls = 0
    /\ app_data \in StreamAppData
    /\ NoRequestYet

ConcurrentTypes == {"application/json", "text/plain"}
ConcurrentLengths == {[kind |-> "absent", n |-> 0]}

\* The stream of the running attempt yields an item and wakes the task, which is
\* polled before anything else arrives.
PollWith(item, most) ==
    /\ pc = "polling"
    /\ payload = <<>>
    /\ fut.variant = "Body"
    /\ item.kind = "Chunk" =>
          /\ Len(chunks) < most
          /\ Symbols_in(chunks) + Len(item.bytes) <= most
    /\ LET r == poll(extractor, fut, <<item>>)
       IN /\ fut' = r.step.fut
          /\ payload' = r.step.payload
          /\ pulls' = pulls + r.step.n
          /\ chunks' = chunks \o r.step.yielded
          /\ log' = log \o r.step.log
          /\ out' = r.out
          /\ handed' = IF r.handed.some THEN r.handed ELSE handed
          /\ validated' = validated \o r.validated
          /\ pc' = IF r.out.poll = "Ready" THEN "done" ELSE "polling"
    /\ UNCHANGED <<other, startup_vars, request_vars, response>>

\* A running server serves two requests at once, each with a short body.
NextConcurrent ==
    \/ \E ex \in Extractors, ctype \in ConcurrentTypes, clen \in ConcurrentLengths :
            FromRequest(ex, ctype, clen)
    \/ \E c \in Chunks : PollWith(Chunk(c), MaxHeadBody)
    \/ PollWith(StreamEnd, MaxHeadBody)
    \/ \E e \in PayloadErrors : PollWith(StreamErr(e), MaxHeadBody)
    \/ Poll
    \/ Switch

SpecConcurrent == InitConcurrent /\ [][NextConcurrent]_vars

\* ------------------------------------------------ limits around the default
\* a configured limit above the default one
BigLimit == 2 * DEFAULT_LIMIT

\* A running server whose application registered nothing, or a config with a
\* limit below or above the default.
LimitAppData ==
    {NothingRegistered}
    \cup {[NothingRegistered EXCEPT
              !["json_config::JsonConfig"] = JsonConfig_limit(DEFAULT_CONFIG, l)] :
            l \in {SmallLimit, BigLimit}}

InitLimit ==
    /\ other = NoAttempt
    /\ pc = "serving"
    /\ builder = DEFAULT_CONFIG
    /\ calls = 0
    /\ app_data \in LimitAppData
    /\ NoRequestYet

LimitLengths ==
    ContentLengths \cup {[kind |-> "digits", n |-> n] : n \in {BigLimit, BigLimit + 1}}

\* A running server serves one json request, polled on each stream item.
NextLimit ==
    \/ \E ex \in Extractors, clen \in LimitLengths :
            FromRequest(ex, "application/json", clen)
    \/ \E c \in Chunks : PollWith(Chunk(c), MaxBody)
    \/ PollWith(StreamEnd, MaxBody)
    \/ \E e \in PayloadErrors : PollWith(StreamErr(e), MaxBody)
    \/ Poll

SpecLimit == InitLimit /\ [][NextLimit]_vars

\* ------------------------------------------------------------- a fair host
LiveTypes == {"application/json", "text/plain"}
LiveLengths == {[kind |-> "absent", n |-> 0], [kind |-> "digits", n |-> SmallLimit + 1]}

\* A running server serves one request with a short body.
NextLive ==
    \/ \E ex \in Extractors, ctype \in LiveTypes, clen \in LiveLengths :
            FromRequest(ex, ctype, clen)
    \/ \E c \in Chunks : DeliverChunk(c, MaxHeadBody)
    \/ DeliverEnd
    \/ \E e \in PayloadErrors : DeliverError(e)
    \/ Poll

\* the stream comes to its end or to an error
StreamStops == DeliverEnd \/ \E e \in PayloadErrors : DeliverError(e)

\* The host keeps polling the future while it has something to report, and the
\* stream does not stay open for ever.
SpecLive ==
    /\ InitStream
    /\ [][NextLive]_vars
    /\ WF_vars(Poll)
    /\ WF_vars(StreamStops)

\* ------------------------------------------------- polling a finished future
\* The stream yielded its end or an error: the host has nothing more to deliver.
StreamClosed == handed.some \/ out.err.type \in PayloadErrors

\* The host goes on delivering the body after the future returned Ready.
DeliverLate(item) ==
    /\ pc = "done"
    /\ fut.variant = "Body"
    /\ ~StreamClosed
    /\ StreamOpen
    /\ Len(payload) < MaxQueue
    /\ item.kind = "Chunk" =>
          /\ Len(chunks) + Len(payload) < MaxLateBody
          /\ Symbols_in(chunks) + Symbols_in(QueuedChunks) + Len(item.bytes) <= MaxLateBody
    /\ payload' = Append(payload, item)
    /\ UNCHANGED <<other, pc, startup_vars, request_vars, reader_vars>>

MayPollAgain == fut.variant = "Error" \/ payload # <<>>

\* The future is polled again after it returned Ready: nothing in poll or
\* poll_bytes remembers that a result was given.
PollAgain ==
    /\ pc = "done"
    /\ MayPollAgain
    /\ LET r == poll(extractor, fut, payload)
       IN /\ fut' = r.step.fut
          /\ payload' = r.step.payload
          /\ pulls' = pulls + r.step.n
          /\ chunks' = chunks \o r.step.yielded
          /\ log' = log \o r.step.log
          /\ out' = r.out
          /\ handed' = IF r.handed.some THEN r.handed ELSE handed
          /\ validated' = validated \o r.validated
          /\ pc' = CASE r.out.poll = "Ready" -> "done"
                    [] r.out.poll = "Pending" -> "polling"
                    [] OTHER -> "panicked"
    /\ UNCHANGED <<other, startup_vars, request_vars, response>>

\* A running server serves one request; its future may be polled after Ready.
NextRepoll ==
    \/ Request
    \/ \E c \in Chunks : DeliverChunk(c, MaxLateBody)
    \/ DeliverEnd
    \/ \E e \in PayloadErrors : DeliverError(e)
    \/ Poll
    \/ \E c \in Chunks : DeliverLate(Chunk(c))
    \/ DeliverLate(StreamEnd)
    \/ \E e \in PayloadErrors : DeliverLate(StreamErr(e))
    \/ PollAgain

SpecRepoll == InitStream /\ [][NextRepoll]_vars

\* ------------------------------------------------------------ twin attempts
\* Two connections get the same request but for its Content-Length header, and
\* their streams yield the same items at the same polls.
TwinTypes == {"application/json", "text/plain"}

\* Content-Length values: none, no usize, and every length up to one over the
\* small limit
TwinLengths ==
    {[kind |-> "absent", n |-> 0], [kind |-> "garbage", n |-> 0]}
    \cup {[kind |-> "digits", n |-> n] : n \in 0..(SmallLimit + 1)}

\* from_request on the connection of attempt a
Served(a, ex, ctype, clen) ==
    LET r == [ctype |-> ctype, clen |-> clen]
        c == from_req(ex, app_data)
        made == New(r, c.content_type, c.content_type_required)
    IN [a EXCEPT !.pc = "polling", !.extractor = ex, !.req = r, !.config = c,
                 !.payload_taken = made.taken, !.fut = Limit(made.fut, c.limit)]

\* Future::poll of attempt a when `items` have become ready on its stream
Polled(a, items) ==
    LET r == poll(a.extractor, a.fut, a.payload \o items)
    IN [a EXCEPT !.fut = r.step.fut,
                 !.payload = r.step.payload,
                 !.pulls = @ + r.step.n,
                 !.chunks = @ \o r.step.yielded,
                 !.log = @ \o r.step.log,
                 !.out = r.out,
                 !.handed = IF r.handed.some THEN r.handed ELSE @,
                 !.validated = @ \o r.validated,
                 !.pc = IF r.out.poll = "Ready" THEN "done" ELSE "polling"]

\* the attempt the worker is running becomes a
Becomes(a) ==
    /\ pc' = a.pc
    /\ extractor' = a.extractor
    /\ req' = a.req
    /\ payload_taken' = a.payload_taken
    /\ payload' = a.payload
    /\ config' = a.config
    /\ fut' = a.fut
    /\ out' = a.out
    /\ pulls' = a.pulls
    /\ chunks' = a.chunks
    /\ handed' = a.handed
    /\ validated' = a.validated
    /\ log' = a.log
    /\ response' = a.response

\* Both connections receive their request: the same handler, the same content
\* type, the Content-Length header of each.
TwinFromRequest(ex, ctype, clen, twin) ==
    /\ pc = "serving"
    /\ other.pc = "serving"
    /\ Becomes(Served(Current, ex, ctype, clen))
    /\ other' = Served(other, ex, ctype, twin)
    /\ UNCHANGED startup_vars

\* Both streams yield `items` (or nothing) and both futures are polled; a future
\* that has returned Ready is not polled.
TwinPoll(items, most) ==
    /\ pc = "polling"
    /\ IF items = <<>> THEN MayPoll ELSE fut.variant = "Body"
    /\ Len(chunks) + Len(items) <= most
    /\ Symbols_in(chunks) + Symbols_in([i \in 1..Len(items) |-> items[i].bytes]) <= most
    /\ Becomes(Polled(Current, items))
    /\ other' = IF other.pc = "polling" THEN Polled(other, items) ELSE other
    /\ UNCHANGED startup_vars

\* A running server serves the twin requests.
NextTwin ==
    \/ \E ex \in Extractors, ctype \in TwinTypes, clen \in TwinLengths,
          twin \in TwinLengths :
            TwinFromRequest(ex, ctype, clen, twin)
    \/ \E c \in Chunks : TwinPoll(<<Chunk(c)>>, MaxBody)
    \/ TwinPoll(<<StreamEnd>>, MaxBody)
    \/ \E e \in PayloadErrors : TwinPoll(<<StreamErr(e)>>, MaxBody)
    \/ TwinPoll(<<>>, MaxBody)

SpecTwin == InitConcurrent /\ [][NextTwin]_vars

\* =================================================================== claims
RECURSIVE Concat(_)
Concat(seq) == IF seq = <<>> THEN <<>> ELSE Head(seq) \o Concat(Tail(seq))

Front(seq) == SubSeq(seq, 1, Len(seq) - 1)

\* bytes of the first k chunks the stream yielded
Running(k) == ByteLen(Concat(SubSeq(chunks, 1, k)))

Created == pc \in {"polling", "done"}

\* the gate let the request through, as new() decided it
GatePassed == can_parse_json(req.ctype, config.content_type, config.content_type_required)

Declared == parse_length(req.clen)

DeclaredFits == ~Declared.some \/ Declared.v <= config.limit

\* C1: while a reader exists, the bytes in its buffer never exceed its limit, and
\* the buffer holds whole chunks only: all the chunks yielded, or all but the
\* last one when that one would have crossed the limit (or nothing, once the
\* buffer was moved out).
C1_BufferWithinLimit ==
    fut.variant = "Body" =>
        /\ ByteLen(fut.buf) <= fut.limit
        /\ \/ fut.buf = Concat(chunks)
           \/ /\ chunks # <<>>
              /\ fut.buf = Concat(Front(chunks))
              /\ Running(Len(chunks)) > fut.limit
           \/ fut.buf = <<>> /\ handed.some

\* C1 witness: the buffer is full to the limit and a further chunk was refused.
C1_Witness ==
    /\ fut.variant = "Body"
    /\ fut.buf # <<>>
    /\ ByteLen(fut.buf) = fut.limit
    /\ out = ReadyErr(Overflow(fut.limit))

\* the config the application registered for the route, with the defaults when
\* it registered none
Registered ==
    IF app_data["json_config::JsonConfig"] # NoConfig
    THEN app_data["json_config::JsonConfig"]
    ELSE IF app_data["Data<json_config::JsonConfig>"] # NoConfig
    THEN app_data["Data<json_config::JsonConfig>"]
    ELSE [limit |-> 2097152, content_type |-> "None", content_type_required |-> TRUE]

\* C2: for both extractors, the limit, the predicate and the content_type_required
\* flag an extraction uses are those of the JsonConfig the application registered
\* (directly, else wrapped in Data), and the defaults when none is registered.
C2_ConfigResolved == Created => config = Registered

\* C2, the part the code keeps: JsonValid resolves the registered config, and
\* without a registration both extractors use the defaults.
C2_JsonValidResolved ==
    Created =>
        /\ extractor = "JsonValid" => config = Registered
        /\ app_data = NothingRegistered => config = DEFAULT_CONFIG

\* C3: a request that passed the gate with a declared length over the resolved
\* limit ends with OverflowKnownLength{length, limit} of exactly these values,
\* its stream is never pulled and its future never answers Pending; a declared
\* length equal to or under the limit is never rejected with OverflowKnownLength.
C3_KnownLengthOverflow ==
    (Created /\ GatePassed) =>
        IF Declared.some /\ Declared.v > config.limit
        THEN /\ pulls = 0
             /\ chunks = <<>>
             /\ out.poll # "Pending"
             /\ fut.variant = "Error"
             /\ pc = "done" => out = ReadyErr(OverflowKnownLength(Declared.v, config.limit))
        ELSE /\ fut.variant = "Body"
             /\ out.err.type # "OverflowKnownLength"

\* C3 witness: the attempt ended with OverflowKnownLength while the stream held
\* items that were never pulled.
C3_Witness ==
    /\ pc = "done"
    /\ out.err.type = "OverflowKnownLength"
    /\ out.err.length = config.limit + 1
    /\ payload # <<>>
    /\ pulls = 0

\* C3 witness of the boundary: a declared length equal to the limit was accepted
\* and the attempt succeeded.
C3_WitnessEqual ==
    /\ pc = "done"
    /\ Declared.some
    /\ Declared.v = config.limit
    /\ out.ok

\* C4: the attempt fails with Overflow{limit} exactly when a yielded chunk takes
\* the running total over the limit; that chunk is the last one pulled, it is the
\* first to cross the limit, and the buffer holds the chunks before it only.
C4_OverflowAtFirstCrossing ==
    fut.variant = "Body" =>
        /\ (\E k \in 1..Len(chunks) : Running(k) > config.limit) =>
              /\ pc = "done"
              /\ out = ReadyErr(Overflow(config.limit))
        /\ out.err.type = "Overflow" =>
              /\ out.err.limit = config.limit
              /\ chunks # <<>>
              /\ Running(Len(chunks)) > config.limit
              /\ \A k \in 1..(Len(chunks) - 1) : Running(k) <= config.limit
              /\ fut.buf = Concat(Front(chunks))
              /\ ~handed.some

\* C4 witness: the second chunk crossed the limit and a delivered item stayed
\* unpulled.
C4_Witness ==
    /\ pc = "done"
    /\ out.err.type = "Overflow"
    /\ Len(chunks) = 2
    /\ fut.buf # <<>>
    /\ payload # <<>>

\* C5: with no validation (Json<T>), a body within the limit whose stream ended
\* without error is handed to the deserializer as the concatenation of the chunks
\* in arrival order, and the attempt succeeds with the deserialized value if the
\* bytes deserialize and fails with Deserialize if they do not.
C5_DecodeIffDeserializes ==
    ( /\ pc = "done"
      /\ extractor = "Json"
      /\ GatePassed
      /\ DeclaredFits
      /\ Running(Len(chunks)) <= config.limit
      /\ out.err.type \notin PayloadErrors ) =>
        /\ handed = Handed(Concat(chunks))
        /\ IF from_slice(Concat(chunks)).ok
           THEN out = ReadyOk(Carrier("Json", from_slice(Concat(chunks)).v))
           ELSE out = ReadyErr(Deserialize)

\* C5 witness: a body of exactly the limit, received in two chunks, was decoded.
C5_Witness ==
    /\ pc = "done"
    /\ extractor = "Json"
    /\ out.ok
    /\ Len(chunks) = 2
    /\ ByteLen(handed.bytes) = config.limit
    /\ chunks[1] # chunks[2]

\* C5 witness of the failure side: a body within the limit did not deserialize.
C5_WitnessDeserialize ==
    /\ pc = "done"
    /\ extractor = "Json"
    /\ out = ReadyErr(Deserialize)
    /\ handed.bytes # <<>>

\* ------------------------------------------------------ the content-type gate
GateRejected ==
    \/ fut.variant = "Error" /\ fut.err = ContentType
    \/ out = ReadyErr(ContentType)

HeaderAbsent == req.ctype = "absent"
HeaderUnparseable == req.ctype # "absent" /\ ~mime_type(req.ctype).ok
DeclaresMime == mime_type(req.ctype).ok /\ mime_type(req.ctype).some
DeclaredMime == mime_type(req.ctype).mime

IsJson == DeclaresMime /\ (DeclaredMime.subtype = "json" \/ DeclaredMime.suffix = "json")

PredicateAccepts ==
    /\ DeclaresMime
    /\ config.content_type # "None"
    /\ predicate(config.content_type, DeclaredMime)

\* the body the host delivered: what was pulled, then what is still queued
Body == Concat(chunks \o QueuedChunks)

StreamEnded ==
    \/ handed.some
    \/ payload # <<>> /\ payload[Len(payload)].kind = "None"

\* a complete body within the limit that deserializes and, for JsonValid,
\* conforms to the rules, with a declared length that is absent or fits
BodyGood ==
    /\ StreamEnded
    /\ ByteLen(Body) <= config.limit
    /\ DeclaredFits
    /\ from_slice(Body).ok
    /\ extractor = "JsonValid" => validate(from_slice(Body).v) = {}

\* C6 as claimed: the gate accepts exactly when (a) there is no content-type
\* header and content_type_required is false, (b) the subtype or suffix is json,
\* (c) the configured predicate accepts the MIME type; otherwise, a header that
\* does not parse included, the attempt fails with ContentType.
C6_GateAsClaimed ==
    Created =>
        /\ ~GateRejected <=>
              \/ HeaderAbsent /\ ~config.content_type_required
              \/ IsJson
              \/ PredicateAccepts
        /\ (GateRejected /\ pc = "done") => out = ReadyErr(ContentType)

\* C6 amended: as claimed, except that a content-type header that does not parse
\* as a MIME type is treated like a missing header: it is accepted when
\* content_type_required is false.
C6_GateAccepts ==
    Created =>
        /\ ~GateRejected <=>
              \/ (HeaderAbsent \/ HeaderUnparseable) /\ ~config.content_type_required
              \/ IsJson
              \/ PredicateAccepts
        /\ (GateRejected /\ pc = "done") => out = ReadyErr(ContentType)

\* C6 witness: a header that does not parse passed the gate and the body was decoded.
C6_Witness ==
    /\ pc = "done"
    /\ HeaderUnparseable
    /\ ~config.content_type_required
    /\ out.ok

\* C7 as claimed: with a predicate configured and a MIME type declared, a good
\* body is decoded if and only if the predicate accepts the MIME type.
C7_IffPredicateAccepts ==
    (pc = "done" /\ config.content_type # "None" /\ DeclaresMime /\ BodyGood) =>
        (out.ok <=> PredicateAccepts)

\* C7 amended: with a predicate in the resolved configuration and a MIME type
\* declared, a good body is decoded if and only if the subtype or suffix is json
\* or the predicate accepts the MIME type; otherwise the attempt fails with
\* ContentType.
C7_IffJsonOrPredicate ==
    (pc = "done" /\ config.content_type # "None" /\ DeclaresMime /\ BodyGood) =>
        IF IsJson \/ PredicateAccepts
        THEN out = ReadyOk(Carrier(extractor, from_slice(Body).v))
        ELSE out = ReadyErr(ContentType)

\* C7 witness: a MIME type that is not json was decoded because the predicate
\* accepted it.
C7_Witness ==
    /\ pc = "done"
    /\ config.content_type # "None"
    /\ DeclaresMime
    /\ ~IsJson
    /\ PredicateAccepts
    /\ BodyGood
    /\ out.ok

\* C7 witness of the other side: with a predicate configured, a MIME type it
\* rejects, and not json, was refused.
C7_WitnessRejected ==
    /\ pc = "done"
    /\ config.content_type # "None"
    /\ DeclaresMime
    /\ BodyGood
    /\ out = ReadyErr(ContentType)

\* C8: without a content-type header, a good body is decoded if and only if
\* content_type_required is false; when it is true the attempt fails with
\* ContentType, whatever predicate is configured.
C8_NoHeaderIffNotRequired ==
    (pc = "done" /\ HeaderAbsent /\ BodyGood) =>
        IF config.content_type_required
        THEN out = ReadyErr(ContentType)
        ELSE out = ReadyOk(Carrier(extractor, from_slice(Body).v))

\* C8 witness: no header, a predicate configured, content_type_required true: refused.
C8_Witness ==
    /\ pc = "done"
    /\ HeaderAbsent
    /\ BodyGood
    /\ config.content_type # "None"
    /\ config.content_type_required
    /\ out = ReadyErr(ContentType)

\* C8 witness of the other side: no header, content_type_required false: decoded.
C8_WitnessAccepted ==
    /\ pc = "done"
    /\ HeaderAbsent
    /\ BodyGood
    /\ ~config.content_type_required
    /\ out.ok

\* C9: when the gate rejects, the failure is ContentType and it is decided when
\* the future is made: the stream is never pulled, the payload stays in the
\* request, no buffer exists, nothing is logged and the future never answers
\* Pending; text/plain with content_type_required true and no predicate is
\* rejected.
C9_GateBeforeReader ==
    Created =>
        /\ (req.ctype = "text/plain" /\ config.content_type = "None") => GateRejected
        /\ GateRejected =>
              /\ fut.variant = "Error"
              /\ fut.buf = <<>>
              /\ ~payload_taken
              /\ pulls = 0
              /\ chunks = <<>>
              /\ ~handed.some
              /\ log = <<>>
              /\ out.poll # "Pending"
              /\ pc = "done" => out = ReadyErr(ContentType)

\* C9 witness: text/plain was refused while the delivered body stayed unpulled.
C9_Witness ==
    /\ pc = "done"
    /\ req.ctype = "text/plain"
    /\ config.content_type = "None"
    /\ config.content_type_required
    /\ out = ReadyErr(ContentType)
    /\ payload # <<>>

\* C10: the strategy is applied to a successfully deserialized value only; a value
\* is returned only if the strategy succeeded.  With NotValidated every
\* deserialized value is returned; with Validated a value that violates a rule
\* ends the attempt with BadRequest (status 400) carrying every violation, and a
\* conforming value is returned.
C10_Validation ==
    /\ validated # <<>> =>
          /\ handed.some
          /\ from_slice(handed.bytes).ok
          /\ validated = <<from_slice(handed.bytes).v>>
    /\ out.ok =>
          /\ validated = <<out.value.inner>>
          /\ extractor = "JsonValid" => validate(out.value.inner) = {}
    /\ (pc = "done" /\ handed.some /\ from_slice(handed.bytes).ok) =>
          LET v == from_slice(handed.bytes).v IN
          IF extractor = "JsonValid" /\ validate(v) # {}
          THEN /\ out = ReadyErr(BadRequest(validate(v)))
               /\ status_code(out.err) = 400
          ELSE out = ReadyOk(Carrier(extractor, v))
    /\ out.err.type = "BadRequest" => extractor = "JsonValid"

\* C10 witness: a value that violates two rules was refused with both violations.
C10_Witness ==
    /\ pc = "done"
    /\ extractor = "JsonValid"
    /\ out.err.type = "BadRequest"
    /\ Cardinality(out.err.errors) = 2

\* C10 witness of NotValidated: Json returned a value that violates the rules.
C10_WitnessNotValidated ==
    /\ pc = "done"
    /\ extractor = "Json"
    /\ out.ok
    /\ validate(out.value.inner) # {}

\* ------------------------------------------------------ failures are terminal
Failed == pc = "done" /\ out.poll = "Ready" /\ ~out.ok

\* C11: once an attempt has reported a failure, whatever the host does next, a
\* poll of the same future included, no further chunk is pulled from the stream,
\* no chunk is appended to the buffer and no success is produced.
C11_FailureIsTerminal ==
    [][Failed => /\ pulls' = pulls
                 /\ chunks' = chunks
                 /\ fut'.buf = fut.buf
                 /\ ~out'.ok]_vars

\* the part of C11 about the result alone: no success follows a failure
C11_NoSuccessAfterFailure == [][Failed => ~out'.ok]_vars

\* ------------------------------------------------------------ stream errors
\* the stream error the host delivered is what the next pull-through reaches:
\* every chunk queued in front of it fits the buffer
ErrorAhead ==
    /\ pc = "polling"
    /\ fut.variant = "Body"
    /\ payload # <<>>
    /\ payload[Len(payload)].kind = "Err"
    /\ ByteLen(fut.buf) + ByteLen(Concat(Front(QueuedChunks))) <= fut.limit

\* C12: when the stream yields an error, the poll that pulls it ends the attempt
\* with that very error; the bytes accumulated so far are not given to the
\* deserializer, no value is returned, the strategy is not run and nothing is
\* logged.
C12_StreamErrorPropagates ==
    [][(ErrorAhead /\ pulls' # pulls) =>
          /\ pc' = "done"
          /\ out'.poll = "Ready" /\ ~out'.ok
          /\ out'.err = Error(payload[Len(payload)].err, 0, 0, NoErrors)
          /\ out'.value = NoValue
          /\ handed' = NotHanded
          /\ validated' = <<>>
          /\ log' = <<>>]_vars

\* C12 witness: the stream failed with an I/O error after bytes were accumulated.
C12_Witness ==
    /\ pc = "done"
    /\ out = ReadyErr(Error("PayloadError::Io", 0, 0, NoErrors))
    /\ chunks # <<>>
    /\ fut.buf = Concat(chunks)
    /\ handed = NotHanded

\* --------------------------------------------------------------- respond_to
\* C13: returning the carrier as a response always yields a response, never a
\* panic: with a value that serializes and a response that builds, status 200,
\* content-type application/json and the serialized text as body (text that
\* deserializes to the value); when serialization fails, the response made from
\* the Serialize failure, an internal error; when the response cannot be built,
\* the response made from that failure.
C13_RespondTo ==
    response.given =>
        LET res == response.res IN
        /\ res.kind = "Response"
        /\ (response.serializes /\ response.builds) =>
              /\ res.status = 200
              /\ res.content_type = "application/json"
              /\ res.body.side = "left"
              /\ from_slice(res.body.text) = [ok |-> TRUE, v |-> response.value]
        /\ ~response.serializes =>
              /\ res.body = Right(Serialize)
              /\ res.status = 500
        /\ (response.serializes /\ ~response.builds) => res.body = Right(HttpError)

\* C13 witness: a value that does not serialize was returned by the handler.
C13_Witness ==
    /\ response.given
    /\ ~response.serializes
    /\ response.res.status = 500

\* C13 witness of the success: a two-digit value was rendered into a 200 response.
C13_WitnessOk ==
    /\ response.given
    /\ response.value > 10
    /\ response.res.status = 200
    /\ Len(response.res.body.text) = 2

\* ------------------------------------------------------ concurrent attempts
\* what the stream of attempt a yielded: its chunks, then its end or its error
EventsOf(a) ==
    [i \in 1..Len(a.chunks) |-> Chunk(a.chunks[i])]
    \o (IF a.handed.some THEN <<StreamEnd>>
        ELSE IF a.out.err.type \in PayloadErrors THEN <<StreamErr(a.out.err.type)>>
        ELSE <<>>)

\* attempt a served alone: a reader made from its request and the shared
\* configuration, polled once with everything its stream yielded
Alone(a) ==
    LET c == from_req(a.extractor, app_data)
        made == New(a.req, c.content_type, c.content_type_required)
    IN poll(a.extractor, Limit(made.fut, c.limit), EventsOf(a))

\* attempt a is what its own request and its own stream make it
OwnStateOnly(a) ==
    a.pc \in {"polling", "done"} =>
        /\ a.config = from_req(a.extractor, app_data)
        /\ a.fut.variant = "Body" => a.fut.limit = a.config.limit
        /\ a.pc = "polling" /\ a.fut.variant = "Body" => a.fut.buf = Concat(a.chunks)
        /\ a.pc = "done" =>
              /\ a.out = Alone(a).out
              /\ a.fut = Alone(a).step.fut

\* C14: under every interleaving of the polls of two concurrent attempts, the
\* buffer, limit and outcome of each are those its own request and its own stream
\* events give when it is served alone, and no step of an attempt changes the
\* shared configuration.
C14_AttemptsIndependent ==
    /\ [](OwnStateOnly(Current) /\ OwnStateOnly(other))
    /\ [][app_data' = app_data]_vars

\* C14 witness: one attempt was parked with bytes in its buffer while the other,
\* with another limit, ran into an overflow.
C14_Witness ==
    /\ other.pc = "polling"
    /\ other.fut.variant = "Body"
    /\ other.fut.buf # <<>>
    /\ pc = "done"
    /\ out.err.type = "Overflow"
    /\ fut.limit # other.fut.limit

\* ------------------------------------------------- two-phase construction
\* a reader that has its limit from the start: the gate, the declared-length
\* check against that limit, a Body with that limit
NewWithLimit(r, c) ==
    IF ~can_parse_json(r.ctype, c.content_type, c.content_type_required)
    THEN FutError(ContentType)
    ELSE IF parse_length(r.clen).some /\ parse_length(r.clen).v > c.limit
         THEN FutError(OverflowKnownLength(parse_length(r.clen).v, c.limit))
         ELSE FutBody(c.limit, parse_length(r.clen), <<>>)

\* the attempt as that reader runs it, polled once with everything the stream yielded
OnePhase == poll(extractor, NewWithLimit(req, config), EventsOf(Current))

\* C15: new() followed by limit(L) behaves as a reader created with limit L:
\* before the first pull the reader is that reader; an accumulating reader has
\* limit L, whatever the default is; an overflow error reports L; and the
\* attempt ends as the reader created with L ends on the same stream.
C15_TwoPhaseAsOnePhase ==
    Created =>
        /\ pulls = 0 /\ out = NotPolled => fut = NewWithLimit(req, config)
        /\ fut.variant = "Body" => fut.limit = config.limit
        /\ out.err.type \in {"Overflow", "OverflowKnownLength"} =>
              out.err.limit = config.limit
        /\ pc = "done" => /\ out = OnePhase.out
                          /\ fut = OnePhase.step.fut

\* C15 witness: with a limit above the default, a body longer than the default
\* limit was accumulated and a longer one overflowed that limit.
C15_Witness ==
    /\ pc = "done"
    /\ config.limit > DEFAULT_LIMIT
    /\ ByteLen(fut.buf) > DEFAULT_LIMIT
    /\ out = ReadyErr(Overflow(config.limit))

\* C15 witness of the declared length: a length between the default and the
\* configured limit was accepted.
C15_WitnessDeclared ==
    /\ pc = "done"
    /\ Declared.some
    /\ Declared.v > DEFAULT_LIMIT
    /\ Declared.v <= config.limit
    /\ out.ok

\* ---------------------------------------------------------------- suspension
\* a step that polled the future
IsPoll == pulls' # pulls \/ out' # out

\* among the items the stream has ready there is one that ends the attempt: the
\* end, an error, or a chunk that crosses the limit
EndReady ==
    \E k \in 1..Len(payload) :
        \/ payload[k].kind \in {"None", "Err"}
        \/ ByteLen(fut.buf) + ByteLen(Concat(SubSeq(QueuedChunks, 1, k))) > fut.limit

\* C16: a poll returns Pending exactly when the reader is accumulating and, the
\* chunks that were ready being appended, the stream has nothing more ready; such
\* a poll keeps the limit, the declared length and every chunk appended so far;
\* and the attempt ends as a reader polled once with the whole sequence of
\* chunks, end or error ends, however many polls returned Pending and however
\* the chunks were spread over the polls.
C16_PendingOnlyOnStream ==
    /\ [][IsPoll =>
            /\ out'.poll = "Pending" <=> (fut.variant = "Body" /\ ~EndReady)
            /\ out'.poll = "Pending" =>
                  /\ payload' = <<>>
                  /\ fut'.variant = "Body"
                  /\ fut'.limit = fut.limit
                  /\ fut'.length = fut.length
                  /\ fut'.buf = fut.buf \o Concat(QueuedChunks)]_vars
    /\ [](pc = "done" => out = Alone(Current).out)

\* C16 witness: a body that came in two chunks, with a poll that found nothing
\* ready, was decoded.
C16_Witness ==
    /\ pc = "done"
    /\ out.ok
    /\ Len(chunks) = 2
    /\ pulls > Len(chunks) + 1

\* C16 witness of a suspension: the reader waits with bytes in its buffer.
C16_WitnessPending ==
    /\ pc = "polling"
    /\ out = PollPending
    /\ fut.buf # <<>>
    /\ payload = <<>>

\* ------------------------------------------------------------------ logging
\* every record shows the leading bytes of its buffer, 30 * 1024 of them at most
PreviewsCut ==
    \A i \in 1..Len(log) :
        LET n == ByteLen(log[i].text.of) IN
        log[i].text.shown = IF n > 30 * 1024 THEN 30 * 1024 ELSE n

LoggedAt(level, bytes) ==
    \E i \in 1..Len(log) : log[i].level = level /\ log[i].text.of = bytes

NothingAt(level) == \A i \in 1..Len(log) : log[i].level # level

\* C17 as claimed: a successful attempt logs the preview at trace and nothing at
\* error severity; an attempt that fails with Deserialize, with a validation
\* failure or with Overflow logs a preview at error severity (for Overflow, of
\* the bytes buffered before the oversized chunk); every preview is cut to
\* min(length, 30 * 1024) bytes.
C17_LoggingAsClaimed ==
    /\ PreviewsCut
    /\ pc = "done" =>
          /\ out.ok => LoggedAt("trace", handed.bytes) /\ NothingAt("error")
          /\ out.err.type \in {"Deserialize", "BadRequest"} =>
                LoggedAt("error", handed.bytes)
          /\ out.err.type = "Overflow" => LoggedAt("error", Concat(Front(chunks)))

\* C17, amended: an attempt whose body deserializes, whether it then succeeds or
\* fails validation, logs the preview at trace and nothing at error severity; an
\* attempt that fails with Deserialize or Overflow logs one preview, at error
\* severity (for Overflow, of the bytes buffered before the oversized chunk);
\* every preview is cut to min(length, 30 * 1024) bytes.
C17_Logging ==
    /\ PreviewsCut
    /\ pc = "done" =>
          /\ (out.ok \/ out.err.type = "BadRequest") => log = <<trace_ok(handed.bytes)>>
          /\ out.err.type = "Deserialize" => log = <<trace_error(handed.bytes)>>
          /\ out.err.type = "Overflow" => log = <<trace_error(Concat(Front(chunks)))>>
    /\ \A i \in 1..Len(log) : log[i].level \in {"trace", "error"}

\* C17 witness: a value was refused by validation and the preview of its body
\* was logged at trace severity only.
C17_Witness ==
    /\ pc = "done"
    /\ out.err.type = "BadRequest"
    /\ LoggedAt("trace", handed.bytes)
    /\ NothingAt("error")

\* C17 witness of the cut: a body longer than 30 KB was logged.
C17_WitnessCut ==
    /\ pc = "done"
    /\ log # <<>>
    /\ ByteLen(log[1].text.of) > 30 * 1024
    /\ log[1].text.shown = 30 * 1024

\* C17 witness of an overflow: the bytes buffered before the oversized chunk
\* were logged at error severity.
C17_WitnessOverflow ==
    /\ pc = "done"
    /\ out.err.type = "Overflow"
    /\ fut.buf # <<>>
    /\ log = <<trace_error(fut.buf)>>

\* ------------------------------------------------------------ the two readers
\* the outcome of JsonExtractFut and that of JsonExtractInternalFut correspond:
\* the same poll result, the same error, the same value (wrapped in Json by the
\* first, bare in the second)
SameOutcome(a, b) ==
    /\ a.poll = b.poll
    /\ a.ok = b.ok
    /\ a.err = b.err
    /\ a.value.inner = b.value.inner

\* C18: with a strategy that always succeeds (NotValidated), JsonExtractFut and
\* JsonExtractInternalFut built from the same headers and the same resolved
\* values are the same reader state, and polled in the same state with the same
\* stream items ready they reach the same state (variant, buffer, limit, what is
\* left of the stream, what was logged) and the same outcome.
C18_ReadersCorrespond ==
    Created =>
        /\ LET a == New(req, config.content_type, config.content_type_required)
               b == InternalNew(req, config.content_type, config.content_type_required)
           IN /\ a = b
              /\ Limit(a.fut, config.limit) = InternalLimit(b.fut, config.limit)
        /\ pc = "polling" =>
              LET a == poll("Json", fut, payload)
                  b == internal_poll("NotValidated", fut, payload)
              IN /\ a.step = b.step
                 /\ SameOutcome(a.out, b.out)

\* C18 witness: with a limit of SmallLimit, well under the default, both readers
\* are about to return a value from a body already partly accumulated.
C18_Witness ==
    /\ pc = "polling"
    /\ fut.variant = "Body"
    /\ fut.limit = SmallLimit
    /\ fut.buf # <<>>
    /\ internal_poll("NotValidated", fut, payload).out.ok
    /\ poll("Json", fut, payload).out.ok

\* C18 witness of a refusal: both constructions refuse the declared length.
C18_WitnessKnownLength ==
    /\ pc = "polling"
    /\ InternalLimit(InternalNew(req, config.content_type,
                                  config.content_type_required).fut,
                      config.limit).err.type = "OverflowKnownLength"
    /\ fut.err.type = "OverflowKnownLength"

\* ------------------------------------------------------------ order of stages
\* the k-th item the stream has ready is a chunk that crosses the limit
CrossAt(k) ==
    /\ payload[k].kind = "Chunk"
    /\ ByteLen(fut.buf) + ByteLen(Concat(SubSeq(QueuedChunks, 1, k))) > fut.limit

CrossReady == \E k \in 1..Len(payload) : CrossAt(k)

LastReady(kind) == payload # <<>> /\ payload[Len(payload)].kind = kind

\* C19: the stages run in the order gate, declared length, accumulation,
\* deserialization, validation, and the attempt ends with the failure of the
\* first stage that fails.  A refused content type gives ContentType whatever
\* the declared length; a declared length over the limit gives
\* OverflowKnownLength before anything is pulled; of a crossing chunk and a
\* stream error the one that comes first in the stream decides; nothing is
\* deserialized unless the stream ended within the limit; a body that does not
\* deserialize gives Deserialize and the strategy is not run; the strategy
\* decides last.
C19_FirstFailingStage ==
    /\ [](pc = "done" =>
            /\ ~GatePassed => out = ReadyErr(ContentType) /\ pulls = 0
            /\ (GatePassed /\ ~DeclaredFits) =>
                  /\ out = ReadyErr(OverflowKnownLength(Declared.v, config.limit))
                  /\ pulls = 0
            /\ out.err.type \in PayloadErrors \cup {"Overflow"} =>
                  /\ GatePassed /\ DeclaredFits
                  /\ handed = NotHanded
                  /\ validated = <<>>
            /\ out.err.type \in PayloadErrors => Running(Len(chunks)) <= config.limit
            /\ handed.some =>
                  /\ GatePassed /\ DeclaredFits
                  /\ handed.bytes = Concat(chunks)
                  /\ ByteLen(handed.bytes) <= config.limit
                  /\ ~from_slice(handed.bytes).ok =>
                        out = ReadyErr(Deserialize) /\ validated = <<>>
                  /\ from_slice(handed.bytes).ok =>
                        /\ validated = <<from_slice(handed.bytes).v>>
                        /\ out.ok \/ out.err.type = "BadRequest")
    /\ [][(IsPoll /\ fut.variant = "Body") =>
            /\ out'.err.type = "Overflow" <=> CrossReady
            /\ out'.err.type \in PayloadErrors <=> (~CrossReady /\ LastReady("Err"))
            /\ handed'.some <=> (~CrossReady /\ LastReady("None"))]_vars

\* C19 witness: a refused content type with a declared length over the limit
\* ended with ContentType.
C19_Witness ==
    /\ pc = "done"
    /\ ~GatePassed
    /\ ~DeclaredFits
    /\ out = ReadyErr(ContentType)

\* C19 witness of the accumulation: the stream failed before the limit was
\* crossed and the attempt ended with the transport error.
C19_WitnessStreamError ==
    /\ pc = "done"
    /\ out.err.type \in PayloadErrors
    /\ chunks # <<>>
    /\ config.limit = SmallLimit

\* C19 witness of the other order: the limit was crossed with a stream error
\* still waiting behind the chunk.
C19_WitnessOverflowFirst ==
    /\ pc = "done"
    /\ out.err.type = "Overflow"
    /\ LastReady("Err")

\* ---------------------------------------------------------------- termination
\* the request was refused by the gate or by the declared-length check
Rejected == Created /\ ~(GatePassed /\ DeclaredFits)

\* C20: with a host that keeps polling and a stream that ends or fails after
\* finitely many chunks, every attempt returns a result, and returns it once; an
\* attempt refused by the gate or by the declared-length check returns its
\* failure on the first poll, without a pull and without ever returning Pending.
C20_Terminates ==
    /\ (pc = "polling") ~> (pc = "done" /\ out.poll = "Ready")
    /\ [][pc = "done" => out' = out]_vars
    /\ [](Rejected => out.poll # "Pending" /\ pulls = 0)
    /\ [][(Rejected /\ IsPoll) =>
            /\ out = NotPolled
            /\ out'.poll = "Ready"
            /\ ~out'.ok
            /\ pc' = "done"]_vars

\* C20 witness: a request refused for its declared length got its failure on the
\* first poll, the items of its stream still waiting.
C20_Witness ==
    /\ pc = "done"
    /\ Rejected
    /\ out.err.type = "OverflowKnownLength"
    /\ pulls = 0
    /\ payload # <<>>

\* C20 witness of an accepted attempt: it returned after a poll that found
\* nothing ready and a stream error.
C20_WitnessAfterPending ==
    /\ pc = "done"
    /\ ~Rejected
    /\ out.err.type \in PayloadErrors
    /\ pulls > Len(chunks) + 1

\* ------------------------------------------------------------ declared length
\* the declared length of attempt a passes the check of limit(): no usable
\* header, or a length that is not over the limit
WithinLimit(a) ==
    LET declared == parse_length(a.req.clen)
    IN ~declared.some \/ declared.v <= a.config.limit

\* attempts a and b are in the same state but for the Content-Length header and
\* the length field of the reader
SameButLength(a, b) ==
    [a EXCEPT !.req.clen = b.req.clen, !.fut.length = b.fut.length] = b

\* what a stream can yield next
StreamItems ==
    {Chunk(c) : c \in Chunks} \cup {StreamEnd} \cup {StreamErr(e) : e \in PayloadErrors}

\* JsonExtractInternalFut in the state of reader f, polled with `item` ready,
\* does what it does with the length field of reader g
InternalSameButLength(f, g, item) ==
    LET mine == internal_poll("Validated", f, <<item>>)
        its == internal_poll("Validated", [f EXCEPT !.length = g.length], <<item>>)
    IN /\ [mine.step EXCEPT !.fut.length = g.length] = its.step
       /\ mine.out = its.out

\* C21: two attempts that get the same request but for a declared length that
\* passes the check of limit() (absent, unparseable, or any value up to the
\* limit, whatever the number of bytes streamed) and whose streams yield the same
\* items are in the same state after every step: the same variant, buffer, limit,
\* pulls, log and outcome, with only the stored length apart; the reader of
\* json_config.rs polled in that state ignores the stored length too; and a
\* request whose Content-Length does not parse gets the reader of a request
\* without the header, stored length included.
C21_LengthOnlyInEagerCheck ==
    Created =>
        /\ (WithinLimit(Current) /\ WithinLimit(other)) =>
              /\ SameButLength(Current, other)
              /\ pc = "polling" /\ fut.variant = "Body" =>
                    \A item \in StreamItems : InternalSameButLength(fut, other.fut, item)
        /\ (req.clen.kind = "garbage" /\ other.req.clen.kind = "absent") =>
              /\ Current = [other EXCEPT !.req.clen = req.clen]
              /\ InternalNew(req, config.content_type, config.content_type_required)
                   = InternalNew(other.req, config.content_type,
                                 config.content_type_required)

\* C21 witness: one attempt declared fewer bytes than its stream gave and its
\* twin declared more; both passed the check and both returned the value.
C21_Witness ==
    /\ pc = "done"
    /\ other.pc = "done"
    /\ req.clen.kind = "digits"
    /\ other.req.clen.kind = "digits"
    /\ req.clen.n < ByteLen(handed.bytes)
    /\ other.req.clen.n > ByteLen(handed.bytes)
    /\ other.req.clen.n <= config.limit
    /\ out.ok
    /\ other.out.ok

\* C21 witness of the incremental check: an attempt that declared the limit and
\* its twin without the header both crossed the limit on the same chunk.
C21_WitnessOverflow ==
    /\ pc = "done"
    /\ req.clen = [kind |-> "digits", n |-> SmallLimit]
    /\ other.req.clen.kind = "absent"
    /\ config.limit = SmallLimit
    /\ out.err.type = "Overflow"
    /\ other.out.err.type = "Overflow"
    /\ fut.buf # <<>>

\* C21 witness of a header that does not parse: the attempt and its twin without
\* the header returned the value.
C21_WitnessUnparseable ==
    /\ pc = "done"
    /\ req.clen.kind = "garbage"
    /\ other.req.clen.kind = "absent"
    /\ out.ok
    /\ other.out.ok

\* C21 witness of the eager check: the attempt whose declared length is over the
\* limit was refused while its twin went on to read the body.
C21_WitnessEager ==
    /\ pc = "done"
    /\ out.err.type = "OverflowKnownLength"
    /\ other.pc = "polling"
    /\ other.fut.variant = "Body"
    /\ WithinLimit(other)

====
